---- MODULE Spec2Model ----
(***************************************************************************)
(* Connection-resilience and change-detection engine of the realtime       *)
(* stock data service.                                                     *)
(*                                                                         *)
(*  - MqttConnectionManager  (src/mqtt/services/mqtt-connection.service.ts)*)
(*  - MqttService            (unnamed/part_000: watchdog, cron sessions)   *)
(*  - QuoteService           (src/mqtt/mqtt.module.ts: cached variant;     *)
(*                            src/quote/services/quote.service.ts)         *)
(*                                                                         *)
(* An async method is a sequence of steps separated by its awaits; the     *)
(* invocations suspended at an await are counted per suspension point.     *)
(***************************************************************************)
EXTENDS Integers, FiniteSets, Sequences, Bags, TLC

\* ---------------------------------------------------------------- bounds
\* sessions of one owner that may be not yet closed at the same time
MaxSessions == 2
\* connect() invocations of one owner suspended at an await at the same time
MaxCalls == 2
\* connectToBroker() invocations of MqttService suspended at the same time
MaxSvcCalls == 1

\* watchdog periods the clock may run
MaxTime == 6
\* numeric values a compared quote field may take: 1..MaxVal
MaxVal == 2
\* saveQuoteIfChanged() invocations suspended at an await at the same time
MaxSaves == 1
\* saveQuoteIfChanged() invocations of one burst suspended at the same time
MaxBurst == 2
\* values Math.random() may take: k / RandomSteps for k in 0..RandomSteps-1
RandomSteps == 8

\* ------------------------------------------------------ program constants
ReconnectBase == 5000
ReconnectMax == 900000
\* the watchdog period (5 min) is the unit of time
StaleThreshold == 3
\* throttle window of an alert key, in watchdog periods (10 min)
AlertGap == 2

VARIABLES
    impl,             \* which class owns the connection in this deployment
    trading,          \* isTradingTime() as of now
    now,              \* Date.now(), in watchdog periods
    lifecycle,        \* "new" | "initializing" | "running" | "destroyed"
    client,           \* the session this.client refers to: "null" (no
                      \* session), "open", "closing" (ended, close event
                      \* not delivered yet) or "closed"
    sessions,         \* sessions no longer referenced: state -> how many
    isConnecting,     \* this.isConnecting (MqttConnectionManager)
    reconnectTimer,   \* this.reconnectTimer: 0 = null, else a timer id
    timers,           \* timer ids armed by setTimeout and not yet fired/cleared
    reconnectDelay,   \* this.reconnectDelay
    pending,          \* suspension point -> number of connect() suspended there
    lastMessageTime,  \* this.lastMessageTime (MqttService)
    healthInterval,   \* this.healthInterval is armed (MqttService)
    lastSentAt,       \* alert throttle entry of the watchdog key, -1 = none
    ended,            \* history: end() has run and no start trigger since
    last,             \* history: the step just taken
    eff,              \* history: what the step just taken did
    quoteImpl,        \* which QuoteService is deployed
    cache,            \* QuoteDnseCacheService: symbol -> snapshot
    dnseStore,        \* symbols with a document in the raw store
    mainStore,        \* StockCodes with a document in the normalized store
    saves,            \* bag of saveQuoteIfChanged() suspended at an await
    lastSaved,        \* history: symbol -> quote whose two upserts succeeded last
    qlast,            \* history: the QuoteService step just taken
    lastInbound,      \* history: Date.now() of the last inbound message, -1 = none
    armedDelay,       \* history: the delay of the last setTimeout, in 1/Scale ms
    field             \* a numeric quote field on its way through the coercions

connVars == <<client, sessions, isConnecting, reconnectTimer, timers,
              reconnectDelay, pending>>

quoteVars == <<quoteImpl, cache, dnseStore, mainStore, saves, lastSaved, qlast>>

auxVars == <<lastInbound, armedDelay, field>>

mqttVars == <<impl, trading, now, lifecycle, connVars, lastMessageTime,
              healthInterval, lastSentAt, ended, last, eff, auxVars>>

vars == <<mqttVars, quoteVars>>

Min(a, b) == IF a <= b THEN a ELSE b

NoSessions == [st \in {"open", "closing"} |-> 0]

\* sessions of the transport that are not closed yet
Live(c, ss) == (IF c \in {"open", "closing"} THEN 1 ELSE 0) + ss["open"] + ss["closing"]

\* this.client = connect(...): the session referenced so far is only dropped
Orphaned(c, ss) == IF c \in {"open", "closing"} THEN [ss EXCEPT ![c] = @ + 1] ELSE ss

\* setTimeout returns a handle different from every armed timer
NewTimer(armed) == CHOOSE t \in 1..(Cardinality(armed) + 1) : t \notin armed

\* clearTimeout(handle): a null, fired or cleared handle is ignored
ClearTimeout(armed, handle) == armed \ {handle}

\* client.end(true) on the referenced session: an open session starts closing,
\* its close event is delivered later; anything else is left as it is
EndSession(c) == IF c = "open" THEN "closing" ELSE c

\* a session that may report close (error: only an open one) is the referenced
\* one or an unreferenced one; afterwards it is closed
Closes(from) ==
    \/ /\ client \in from
       /\ client' = "closed"
       /\ UNCHANGED sessions
    \/ \E st \in from :
          /\ sessions[st] > 0
          /\ sessions' = [sessions EXCEPT ![st] = @ - 1]
          /\ UNCHANGED client

NoPending == [p \in {"auth", "urlAlert", "errAlert"} |-> 0]

PastGuard == pending["auth"] + pending["urlAlert"] + pending["errAlert"]

\* what a step did: alert = subject handed to the alert service ("" = none),
\* delivered = the alert passed the throttle, forced = forceReconnect() calls,
\* delivered = the watchdog's alert passed the throttle, forced = number of
\* forceReconnect() calls, armed = the step armed a reconnect timer, cleared =
\* it cancelled a timer that was still armed
NoEff == [alert |-> "", delivered |-> FALSE, forced |-> 0, armed |-> FALSE,
          cleared |-> FALSE]

\* the record of a step that ran scheduleReconnect(), arms telling whether it
\* went past its guard
Rescheduled(arms) ==
    [NoEff EXCEPT !.armed = arms, !.cleared = arms /\ reconnectTimer \in timers]

Manager == "MqttConnectionManager"
Service == "MqttService"

\* ------------------------------------------------- MqttConnectionManager

\* scheduleReconnect() without its trading-window guard
ScheduleReconnectUnguarded ==
    LET cleared == ClearTimeout(timers, reconnectTimer)
        t == NewTimer(cleared)
    IN /\ timers' = cleared \cup {t}
       /\ reconnectTimer' = t
       /\ reconnectDelay' = Min(reconnectDelay * 2, ReconnectMax)

\* scheduleReconnect() without the clearTimeout before arming
ScheduleReconnectNoClear ==
    IF ~trading
    THEN UNCHANGED <<reconnectTimer, timers, reconnectDelay>>
    ELSE LET t == NewTimer(timers)
         IN /\ timers' = timers \cup {t}
            /\ reconnectTimer' = t
            /\ reconnectDelay' = Min(reconnectDelay * 2, ReconnectMax)

\* scheduleReconnect(): the effect on the timer and the backoff delay
ScheduleReconnect ==
    IF ~trading
    THEN UNCHANGED <<reconnectTimer, timers, reconnectDelay>>
    ELSE LET cleared == ClearTimeout(timers, reconnectTimer)
             t == NewTimer(cleared)
         IN /\ timers' = cleared \cup {t}
            /\ reconnectTimer' = t
            /\ reconnectDelay' = Min(reconnectDelay * 2, ReconnectMax)

\* connect() without the isConnecting guard
ConnectEnterUnguarded ==
    IF ~trading
    THEN /\ last' = "skipped"
         /\ eff' = [NoEff EXCEPT !.alert = "MQTT Connect Skipped"]
         /\ UNCHANGED <<isConnecting, pending>>
    ELSE /\ PastGuard < MaxCalls
         /\ isConnecting' = TRUE
         /\ pending' = [pending EXCEPT !["auth"] = @ + 1]
         /\ last' = IF isConnecting THEN "duplicate" ELSE "begin"
         /\ eff' = NoEff

\* connect() up to its first await, or to its return when it is skipped
ConnectEnter ==
    IF ~trading
    THEN /\ last' = "skipped"
         /\ eff' = [NoEff EXCEPT !.alert = "MQTT Connect Skipped"]
         /\ UNCHANGED <<isConnecting, pending>>
    ELSE IF isConnecting
    THEN /\ last' = "duplicate"
         /\ eff' = NoEff
         /\ UNCHANGED <<isConnecting, pending>>
    ELSE /\ PastGuard < MaxCalls
         /\ isConnecting' = TRUE
         /\ pending' = [pending EXCEPT !["auth"] = @ + 1]
         /\ last' = "begin"
         /\ eff' = NoEff

\* a start trigger (session-open schedule, start-up) calls connect()
StartTrigger ==
    /\ impl = Manager
    /\ ConnectEnter
    /\ ended' = FALSE
    /\ UNCHANGED <<auxVars, quoteVars, impl, trading, now, lifecycle, client, sessions, reconnectTimer,
                   timers, reconnectDelay, lastMessageTime, healthInterval, lastSentAt>>

\* the reconnect timer fires and its callback calls connect()
TimerFires ==
    /\ impl = Manager
    /\ \E t \in timers : timers' = timers \ {t}
    /\ ConnectEnter
    /\ UNCHANGED <<auxVars, quoteVars, impl, trading, now, lifecycle, client, sessions, reconnectTimer,
                   reconnectDelay, lastMessageTime, healthInterval, lastSentAt, ended>>

\* getValidToken() rejects: catch block up to the await of the alert
AuthFails ==
    /\ impl = Manager
    /\ pending["auth"] > 0
    /\ pending' = [pending EXCEPT !["auth"] = @ - 1, !["errAlert"] = @ + 1]
    /\ last' = "authFailed"
    /\ eff' = [NoEff EXCEPT !.alert = "MQTT Connection Error"]
    /\ UNCHANGED <<auxVars, quoteVars, impl, trading, now, lifecycle, client, sessions, isConnecting,
                   reconnectTimer, timers, reconnectDelay, lastMessageTime,
                   healthInterval, lastSentAt, ended>>

\* the alert of the catch block is done: scheduleReconnect(), then finally
ErrorAlertDone ==
    /\ impl = Manager
    /\ pending["errAlert"] > 0
    /\ pending' = [pending EXCEPT !["errAlert"] = @ - 1]
    /\ ScheduleReconnect
    /\ isConnecting' = FALSE
    /\ last' = "failed"
    /\ eff' = Rescheduled(trading)
    /\ UNCHANGED <<auxVars, quoteVars, impl, trading, now, lifecycle, client, sessions, lastMessageTime,
                   healthInterval, lastSentAt, ended>>

\* getValidToken() resolves and BROKER_URL is not configured
MissingBrokerUrl ==
    /\ impl = Manager
    /\ pending["auth"] > 0
    /\ pending' = [pending EXCEPT !["auth"] = @ - 1, !["urlAlert"] = @ + 1]
    /\ last' = "urlMissing"
    /\ eff' = [NoEff EXCEPT !.alert = "Missing Broker Url"]
    /\ UNCHANGED <<auxVars, quoteVars, impl, trading, now, lifecycle, client, sessions, isConnecting,
                   reconnectTimer, timers, reconnectDelay, lastMessageTime,
                   healthInterval, lastSentAt, ended>>

\* the alert for the missing url is done: return, then finally
UrlAlertDone ==
    /\ impl = Manager
    /\ pending["urlAlert"] > 0
    /\ pending' = [pending EXCEPT !["urlAlert"] = @ - 1]
    /\ isConnecting' = FALSE
    /\ last' = "failed"
    /\ eff' = NoEff
    /\ UNCHANGED <<auxVars, quoteVars, impl, trading, now, lifecycle, client, sessions, reconnectTimer,
                   timers, reconnectDelay, lastMessageTime, healthInterval,
                   lastSentAt, ended>>

\* getValidToken() resolves and the url is configured: open the session,
\* register the handlers, reset the delay, then finally
ConnectOpens ==
    /\ impl = Manager
    /\ pending["auth"] > 0
    /\ Live(client, sessions) < MaxSessions
    /\ sessions' = Orphaned(client, sessions)
    /\ client' = "open"
    /\ pending' = [pending EXCEPT !["auth"] = @ - 1]
    /\ reconnectDelay' = ReconnectBase
    /\ isConnecting' = FALSE
    /\ last' = "connected"
    /\ eff' = NoEff
    /\ UNCHANGED <<auxVars, quoteVars, impl, trading, now, lifecycle, reconnectTimer, timers,
                   lastMessageTime, healthInterval, lastSentAt, ended>>

\* the transport reports close for a session (also after client.end(true)):
\* the registered reconnect callback runs scheduleReconnect()
TransportClose ==
    /\ impl = Manager
    /\ Closes({"open", "closing"})
    /\ ScheduleReconnect
    /\ last' = "closed"
    /\ eff' = Rescheduled(trading)
    /\ UNCHANGED <<auxVars, quoteVars, impl, trading, now, lifecycle, isConnecting, pending,
                   lastMessageTime, healthInterval, lastSentAt, ended>>

\* the transport reports an error on an open session: the handler closes the
\* handle and the reconnect callback runs scheduleReconnect()
TransportError ==
    /\ impl = Manager
    /\ Closes({"open"})
    /\ ScheduleReconnect
    /\ last' = "error"
    /\ eff' = Rescheduled(trading)
    /\ UNCHANGED <<auxVars, quoteVars, impl, trading, now, lifecycle, isConnecting, pending,
                   lastMessageTime, healthInterval, lastSentAt, ended>>

\* end()
End ==
    /\ impl = Manager
    /\ timers' = ClearTimeout(timers, reconnectTimer)
    /\ sessions' = Orphaned(EndSession(client), sessions)
    /\ client' = "null"
    /\ reconnectDelay' = ReconnectBase
    /\ ended' = TRUE
    /\ last' = "end"
    /\ eff' = NoEff
    /\ UNCHANGED <<auxVars, quoteVars, impl, trading, now, lifecycle, isConnecting, reconnectTimer,
                   pending, lastMessageTime, healthInterval, lastSentAt>>

\* ------------------------------------------------------------ MqttService

\* scheduleReconnect() of MqttService
SvcScheduleReconnect ==
    LET cleared == ClearTimeout(timers, reconnectTimer)
        t == NewTimer(cleared)
    IN /\ timers' = cleared \cup {t}
       /\ reconnectTimer' = t
       /\ reconnectDelay' = Min(reconnectDelay * 2, ReconnectMax)

\* connectToBroker() up to its first await, or to its return when skipped
SvcConnectEnter ==
    IF ~trading
    THEN UNCHANGED pending
    ELSE /\ PastGuard < MaxSvcCalls
         /\ pending' = [pending EXCEPT !["auth"] = @ + 1]

\* how a step that called connectToBroker() is recorded
Entered == IF trading THEN "begin" ELSE "skipped"

\* the await of connectToBroker() in onModuleInit() resumes: startHealthCheck()
AfterConnect ==
    IF lifecycle = "initializing"
    THEN lifecycle' = "running" /\ healthInterval' = TRUE
    ELSE UNCHANGED <<lifecycle, healthInterval>>

\* onModuleInit()
OnModuleInit ==
    /\ impl = Service
    /\ lifecycle = "new"
    /\ IF trading
       THEN /\ SvcConnectEnter
            /\ lifecycle' = "initializing"
            /\ last' = "begin"
            /\ UNCHANGED healthInterval
       ELSE /\ lifecycle' = "running"
            /\ healthInterval' = TRUE
            /\ last' = "init"
            /\ UNCHANGED pending
    /\ eff' = NoEff
    /\ UNCHANGED <<auxVars, quoteVars, impl, trading, now, client, sessions, isConnecting, reconnectTimer,
                   timers, reconnectDelay, lastMessageTime, lastSentAt, ended>>

\* onModuleDestroy()
OnModuleDestroy ==
    /\ impl = Service
    /\ lifecycle = "running"
    /\ lifecycle' = "destroyed"
    /\ healthInterval' = FALSE
    /\ client' = EndSession(client)
    /\ last' = "destroy"
    /\ eff' = NoEff
    /\ UNCHANGED <<auxVars, quoteVars, impl, trading, now, sessions, isConnecting, reconnectTimer, timers,
                   reconnectDelay, pending, lastMessageTime, lastSentAt, ended>>

\* cronStartSession()
CronStartSession ==
    /\ impl = Service
    /\ lifecycle = "running"
    /\ SvcConnectEnter
    /\ last' = Entered
    /\ ended' = FALSE
    /\ eff' = NoEff
    /\ UNCHANGED <<auxVars, quoteVars, impl, trading, now, lifecycle, client, sessions, isConnecting,
                   reconnectTimer, timers, reconnectDelay, lastMessageTime,
                   healthInterval, lastSentAt>>

\* cronEndSession()
CronEndSession ==
    /\ impl = Service
    /\ lifecycle = "running"
    /\ sessions' = Orphaned(EndSession(client), sessions)
    /\ client' = "null"
    /\ ended' = TRUE
    /\ last' = "end"
    /\ eff' = NoEff
    /\ UNCHANGED <<auxVars, quoteVars, impl, trading, now, lifecycle, isConnecting, reconnectTimer,
                   timers, reconnectDelay, pending, lastMessageTime, healthInterval,
                   lastSentAt>>

\* the reconnect timer fires and its callback calls connectToBroker()
SvcTimerFires ==
    /\ impl = Service
    /\ \E t \in timers : timers' = timers \ {t}
    /\ SvcConnectEnter
    /\ last' = Entered
    /\ eff' = NoEff
    /\ UNCHANGED <<auxVars, quoteVars, impl, trading, now, lifecycle, client, sessions, isConnecting,
                   reconnectTimer, reconnectDelay, lastMessageTime, healthInterval,
                   lastSentAt, ended>>

\* getValidToken() rejects: catch block up to the await of the alert
SvcAuthFails ==
    /\ impl = Service
    /\ pending["auth"] > 0
    /\ pending' = [pending EXCEPT !["auth"] = @ - 1, !["errAlert"] = @ + 1]
    /\ last' = "authFailed"
    /\ eff' = [NoEff EXCEPT !.alert = "MQTT Connect Error"]
    /\ UNCHANGED <<auxVars, quoteVars, impl, trading, now, lifecycle, client, sessions, isConnecting,
                   reconnectTimer, timers, reconnectDelay, lastMessageTime,
                   healthInterval, lastSentAt, ended>>

\* getValidToken() resolves and BROKEN_URL is not configured: the
\* NotFoundException is caught by the same catch block
SvcMissingBrokerUrl ==
    /\ impl = Service
    /\ pending["auth"] > 0
    /\ pending' = [pending EXCEPT !["auth"] = @ - 1, !["errAlert"] = @ + 1]
    /\ last' = "urlMissing"
    /\ eff' = [NoEff EXCEPT !.alert = "MQTT Connect Error"]
    /\ UNCHANGED <<auxVars, quoteVars, impl, trading, now, lifecycle, client, sessions, isConnecting,
                   reconnectTimer, timers, reconnectDelay, lastMessageTime,
                   healthInterval, lastSentAt, ended>>

\* the alert of the catch block is done: scheduleReconnect()
SvcErrorAlertDone ==
    /\ impl = Service
    /\ pending["errAlert"] > 0
    /\ pending' = [pending EXCEPT !["errAlert"] = @ - 1]
    /\ SvcScheduleReconnect
    /\ AfterConnect
    /\ last' = "failed"
    /\ eff' = Rescheduled(TRUE)
    /\ UNCHANGED <<auxVars, quoteVars, impl, trading, now, client, sessions, isConnecting,
                   lastMessageTime, lastSentAt, ended>>

\* getValidToken() resolves and the url is configured: open the session and
\* register the handlers
SvcConnectOpens ==
    /\ impl = Service
    /\ pending["auth"] > 0
    /\ Live(client, sessions) < MaxSessions
    /\ sessions' = Orphaned(client, sessions)
    /\ client' = "open"
    /\ pending' = [pending EXCEPT !["auth"] = @ - 1]
    /\ AfterConnect
    /\ last' = "connected"
    /\ eff' = NoEff
    /\ UNCHANGED <<auxVars, quoteVars, impl, trading, now, isConnecting, reconnectTimer, timers,
                   reconnectDelay, lastMessageTime, lastSentAt, ended>>

\* the transport reports close for a session (also after client.end(true)):
\* the registered reconnect callback runs scheduleReconnect()
SvcTransportClose ==
    /\ impl = Service
    /\ Closes({"open", "closing"})
    /\ SvcScheduleReconnect
    /\ last' = "closed"
    /\ eff' = Rescheduled(TRUE)
    /\ UNCHANGED <<auxVars, quoteVars, impl, trading, now, lifecycle, isConnecting, pending,
                   lastMessageTime, healthInterval, lastSentAt, ended>>

\* the transport reports an error on an open session: the handler closes the
\* handle and the reconnect callback runs scheduleReconnect()
SvcTransportError ==
    /\ impl = Service
    /\ Closes({"open"})
    /\ SvcScheduleReconnect
    /\ last' = "error"
    /\ eff' = Rescheduled(TRUE)
    /\ UNCHANGED <<auxVars, quoteVars, impl, trading, now, lifecycle, isConnecting, pending,
                   lastMessageTime, healthInterval, lastSentAt, ended>>

\* AlertService: an alert of a key passes when none was delivered within the gap
Throttled(sentAt, t) == sentAt # -1 /\ t - sentAt < AlertGap

\* the stale test with >= for >
IsStaleOffByOne(diff) == diff >= StaleThreshold

\* the watchdog's stale test on the idle time
IsStale(diff) == diff > StaleThreshold

\* forceReconnect(): end the session, then connectToBroker() up to its await
ForceReconnect ==
    /\ client' = EndSession(client)
    /\ SvcConnectEnter

\* one watchdog period passes and the setInterval callback runs
HealthCheck ==
    /\ impl = Service
    /\ healthInterval
    /\ now < MaxTime
    /\ now' = now + 1
    /\ IF IsStale(now' - lastMessageTime)
       THEN /\ eff' = [NoEff EXCEPT !.alert = "MQTT Health Check",
                                    !.delivered = ~Throttled(lastSentAt, now'),
                                    !.forced = 1]
            /\ lastSentAt' = IF Throttled(lastSentAt, now') THEN lastSentAt ELSE now'
            /\ ForceReconnect
       ELSE /\ eff' = NoEff
            /\ UNCHANGED <<lastSentAt, client, pending>>
    /\ last' = "health"
    /\ UNCHANGED <<auxVars, quoteVars, impl, trading, lifecycle, sessions, isConnecting, reconnectTimer,
                   timers, reconnectDelay, lastMessageTime, healthInterval, ended>>

\* the trading window opens or closes
TradingFlips ==
    /\ trading' = ~trading
    /\ last' = "window"
    /\ eff' = NoEff
    /\ UNCHANGED <<auxVars, quoteVars, impl, now, lifecycle, connVars, lastMessageTime,
                   healthInterval, lastSentAt, ended>>


\* ----------------------------------------------------------- QuoteService

\* JavaScript values: a number, a text, undefined or null
Num(n) == [t |-> "number", n |-> n, s |-> ""]
Str(s) == [t |-> "string", n |-> 0, s |-> s]
NaN == [t |-> "number", n |-> 0, s |-> "NaN"]
Undefined == [t |-> "undefined", n |-> 0, s |-> ""]
Null == [t |-> "null", n |-> 0, s |-> ""]

CompareFields ==
    {"matchPrice", "totalVolumeTraded", "matchQuantity", "changedValue", "changedRatio"}

BaseQuote(sym) ==
    [symbol |-> sym, matchPrice |-> Num(1), totalVolumeTraded |-> Num(1),
     matchQuantity |-> Num(1), changedValue |-> Num(1), changedRatio |-> Num(1)]

\* the payloads fed to saveQuoteIfChanged: for "AAA" the base quote and every
\* quote that differs from it in one compared field (another number, or absent);
\* one whose symbol is the text "0", which Number() reads as a number; one
\* without symbol
Inputs ==
    {BaseQuote(Str("AAA")), BaseQuote(Str("0")), BaseQuote(Undefined)} \cup
    {[BaseQuote(Str("AAA")) EXCEPT ![f] = v] :
        f \in CompareFields, v \in {Undefined} \cup {Num(n) : n \in 2..MaxVal}}

\* !x
Falsy(x) == x.t \in {"undefined", "null"} \/ x = Num(0) \/ x = Str("") \/ x = NaN

\* the texts of the model that Number() reads as a number
NumericText == [s \in {"0", "1", "2", ""} |-> CASE s = "1" -> 1 [] s = "2" -> 2 [] OTHER -> 0]

\* Number(value)
ToNumber(value) ==
    IF value.t = "number" THEN value
    ELSE IF value.t = "string"
    THEN IF value.s \in DOMAIN NumericText THEN Num(NumericText[value.s]) ELSE NaN
    ELSE IF value.t = "null" THEN Num(0)
    ELSE NaN

\* fieldMap.StockCode: the raw field the StockCode is mapped from
StockCodeSource == "symbol"

\* the body of the loop of mapQuoteToInternalFormat for a field that is
\* neither TradingDate nor MarketID
MapField(value) ==
    IF value.t \in {"undefined", "null"} THEN Null
    ELSE IF ToNumber(value) = NaN THEN value ELSE ToNumber(value)

\* mapQuoteToInternalFormat(quote), each mapped field under the name of its source
mapQuoteToInternalFormat(quote) == [f \in DOMAIN quote |-> MapField(quote[f])]

\* mapQuoteToInternalFormat(quote).StockCode
MapStockCode(quote) == mapQuoteToInternalFormat(quote)[StockCodeSource]

\* quoteCacheService.get(symbol) is undefined
Uncached(c, data) == data.symbol.s \notin DOMAIN c

\* the change test of saveQuoteIfChanged against the cached snapshot
IsChanged(c, data) ==
    \/ Uncached(c, data)
    \/ c[data.symbol.s].matchPrice # data.matchPrice
    \/ c[data.symbol.s].totalVolumeTraded # data.totalVolumeTraded
    \/ c[data.symbol.s].matchQuantity # data.matchQuantity
    \/ c[data.symbol.s].changedValue # data.changedValue
    \/ c[data.symbol.s].changedRatio # data.changedRatio

\* map.set(key, value)
MapSet(m, key, value) ==
    [k \in DOMAIN m \cup {key} |-> IF k = key THEN value ELSE m[k]]

NoEntries == [k \in {} |-> Undefined]

Call(q, pc, changed) == [q |-> q, pc |-> pc, isChanged |-> changed]

Suspend(c) == saves (+) SetToBag({c})
Resume(c) == saves (-) SetToBag({c})

Cached == "cached"
Plain == "plain"

\* saveQuoteIfChanged(data) of the caching service without the StockCode check
CachedSaveCallUnchecked(data) ==
    /\ quoteImpl = Cached
    /\ IF Falsy(data.symbol)
       THEN qlast' = "noSymbol" /\ UNCHANGED saves
       ELSE /\ BagCardinality(saves) < MaxSaves
            /\ IF IsChanged(cache, data)
               THEN /\ saves' = Suspend(Call(data, "upserts", TRUE))
                    /\ qlast' = "issued"
               ELSE /\ saves' = Suspend(Call(data, "exists", FALSE))
                    /\ qlast' = "checking"
    /\ UNCHANGED <<quoteImpl, cache, dnseStore, mainStore, lastSaved>>

\* saveQuoteIfChanged(data) of the caching service, up to its first await or
\* to its throw, with at most max calls suspended at a time
CachedSaveWithin(data, max) ==
    /\ quoteImpl = Cached
    /\ IF Falsy(data.symbol)
       THEN qlast' = "noSymbol" /\ UNCHANGED saves
       ELSE IF Falsy(MapStockCode(data))
       THEN qlast' = "noStockCode" /\ UNCHANGED saves
       ELSE /\ BagCardinality(saves) < max
            /\ IF IsChanged(cache, data)
               THEN /\ saves' = Suspend(Call(data, "upserts", TRUE))
                    /\ qlast' = "issued"
               ELSE /\ saves' = Suspend(Call(data, "exists", FALSE))
                    /\ qlast' = "checking"
    /\ UNCHANGED <<quoteImpl, cache, dnseStore, mainStore, lastSaved>>

CachedSaveCall(data) == CachedSaveWithin(data, MaxSaves)

\* saveQuoteIfChanged(data) called on the caching service
SaveQuoteIfChanged(data) == CachedSaveCall(data) /\ UNCHANGED mqttVars

\* the exists check that returns whatever it finds
ExistsSettlesNoHeal(c) ==
    /\ quoteImpl = Cached
    /\ c.pc = "exists"
    /\ saves' = Resume(c)
    /\ qlast' = "unchanged"
    /\ UNCHANGED <<mqttVars, quoteImpl, cache, dnseStore, mainStore, lastSaved>>

\* mainQuoteModel.exists({ StockCode }) resolves for an unchanged quote
ExistsSettles(c) ==
    /\ quoteImpl = Cached
    /\ c.pc = "exists"
    /\ IF MapStockCode(c.q) \in mainStore
       THEN /\ saves' = Resume(c)
            /\ qlast' = "unchanged"
       ELSE /\ saves' = Resume(c) (+) SetToBag({Call(c.q, "upserts", FALSE)})
            /\ qlast' = "healing"
    /\ UNCHANGED <<mqttVars, quoteImpl, cache, dnseStore, mainStore, lastSaved>>

\* what the two updateOne(..., { upsert: true }) leave in the stores
Upserted(c, dnseOk, mainOk) ==
    /\ dnseStore' = IF dnseOk THEN dnseStore \cup {c.q.symbol.s} ELSE dnseStore
    /\ mainStore' = IF mainOk THEN mainStore \cup {MapStockCode(c.q)} ELSE mainStore
    /\ lastSaved' = IF dnseOk /\ mainOk
                    THEN MapSet(lastSaved, c.q.symbol.s, c.q)
                    ELSE lastSaved

\* Promise.all of the two upserts settles; when neither rejected the cache is set
UpsertsSettle(c, dnseOk, mainOk) ==
    /\ quoteImpl = Cached
    /\ c.pc = "upserts"
    /\ saves' = Resume(c)
    /\ Upserted(c, dnseOk, mainOk)
    /\ IF dnseOk /\ mainOk
       THEN /\ cache' = MapSet(cache, c.q.symbol.s, c.q)
            /\ qlast' = "saved"
       ELSE /\ qlast' = "rejected"
            /\ UNCHANGED cache
    /\ UNCHANGED <<mqttVars, quoteImpl>>

\* saveQuoteIfChanged(data) of the service without cache update, up to its
\* await, return or throw, with at most max calls suspended at a time
PlainSaveWithin(data, max) ==
    /\ quoteImpl = Plain
    /\ IF Falsy(data.symbol)
       THEN qlast' = "noSymbol" /\ UNCHANGED saves
       ELSE IF ~IsChanged(cache, data)
       THEN qlast' = "unchanged" /\ UNCHANGED saves
       ELSE IF Falsy(MapStockCode(data))
       THEN qlast' = "noStockCode" /\ UNCHANGED saves
       ELSE /\ BagCardinality(saves) < max
            /\ saves' = Suspend(Call(data, "upserts", TRUE))
            /\ qlast' = "issued"
    /\ UNCHANGED <<quoteImpl, cache, dnseStore, mainStore, lastSaved>>

PlainSaveCall(data) == PlainSaveWithin(data, MaxSaves)

\* saveQuoteIfChanged(data) called on the service without cache update
PlainSaveQuoteIfChanged(data) == PlainSaveCall(data) /\ UNCHANGED mqttVars

\* Promise.all of the two upserts settles
PlainUpsertsSettle(c, dnseOk, mainOk) ==
    /\ quoteImpl = Plain
    /\ c.pc = "upserts"
    /\ saves' = Resume(c)
    /\ Upserted(c, dnseOk, mainOk)
    /\ qlast' = IF dnseOk /\ mainOk THEN "saved" ELSE "rejected"
    /\ UNCHANGED <<mqttVars, quoteImpl, cache>>

\* the normalized store loses a document outside this service
MainRecordRemoved(code) ==
    /\ code \in mainStore
    /\ mainStore' = mainStore \ {code}
    /\ lastSaved' = [k \in {j \in DOMAIN lastSaved : MapStockCode(lastSaved[j]) # code}
                        |-> lastSaved[k]]
    /\ qlast' = "removed"
    /\ UNCHANGED <<mqttVars, quoteImpl, cache, dnseStore, saves>>

\* ------------------------------------------------------- message routing

\* the payloads of the feed: a text that JSON.parse rejects, and the JSON of a
\* quote with a symbol and a StockCode, of one whose StockCode maps to the
\* number 0, and of one without symbol
FeedInputs == {BaseQuote(Str("AAA")), BaseQuote(Str("0")), BaseQuote(Undefined)}

Malformed == [ok |-> FALSE, q |-> BaseQuote(Undefined)]

Payloads == {Malformed} \cup {[ok |-> TRUE, q |-> q] : q \in FeedInputs}

\* void this.quoteService.saveQuoteIfChanged(json): the call runs to its first
\* await, return or throw; the promise is dropped
SaveCall(data) == CachedSaveCall(data) \/ PlainSaveCall(data)

\* the message handler that registerMqttEvents puts on a session calls
\* onMessage(json) for a payload that parses and drops one that does not; the
\* owner's callback starts the save and touches no field of the owner
Message(payload) ==
    /\ impl \in {Manager, Service}
    /\ client = "open" \/ sessions["open"] > 0
    /\ lastInbound' = now
    /\ IF payload.ok
       THEN SaveCall(payload.q) /\ last' = "message"
       ELSE last' = "malformed" /\ UNCHANGED quoteVars
    /\ eff' = NoEff
    /\ UNCHANGED <<impl, trading, now, lifecycle, connVars, lastMessageTime,
                   healthInterval, lastSentAt, ended, armedDelay, field>>

\* the two first versions of MqttService: no reconnect, no watchdog
EarlyV1 == "MqttService (part_001)"
EarlyV2 == "MqttService (part_002)"
Early == {EarlyV1, EarlyV2}

\* const toNumber = (val) => isNaN(Number(val)) ? undefined : Number(val)
toNumber(val) == IF ToNumber(val) = NaN THEN Undefined ELSE ToNumber(val)

\* normalizeQuote(raw), on the fields of the model
normalizeQuote(raw) ==
    [raw EXCEPT !.matchPrice = toNumber(@),
                !.matchQuantity = toNumber(@),
                !.totalVolumeTraded = toNumber(@),
                !.changedValue = toNumber(@),
                !.changedRatio = toNumber(@)]

\* onModuleInit(): connectToBroker() up to the await of getValidToken()
EarlyOnModuleInit ==
    /\ impl \in Early
    /\ lifecycle = "new"
    /\ lifecycle' = "running"
    /\ pending' = [pending EXCEPT !["auth"] = @ + 1]
    /\ last' = "begin"
    /\ eff' = NoEff
    /\ UNCHANGED <<auxVars, quoteVars, impl, trading, now, client, sessions, isConnecting,
                   reconnectTimer, timers, reconnectDelay, lastMessageTime,
                   healthInterval, lastSentAt, ended>>

\* getValidToken() rejects or BROKEN_URL is not configured: the catch block logs
EarlyConnectFails ==
    /\ impl \in Early
    /\ pending["auth"] > 0
    /\ pending' = [pending EXCEPT !["auth"] = @ - 1]
    /\ last' = "failed"
    /\ eff' = NoEff
    /\ UNCHANGED <<auxVars, quoteVars, impl, trading, now, lifecycle, client, sessions,
                   isConnecting, reconnectTimer, timers, reconnectDelay,
                   lastMessageTime, healthInterval, lastSentAt, ended>>

\* getValidToken() resolves and the url is configured: open the session and
\* register the handlers
EarlyConnectOpens ==
    /\ impl \in Early
    /\ pending["auth"] > 0
    /\ pending' = [pending EXCEPT !["auth"] = @ - 1]
    /\ sessions' = Orphaned(client, sessions)
    /\ client' = "open"
    /\ last' = "connected"
    /\ eff' = NoEff
    /\ UNCHANGED <<auxVars, quoteVars, impl, trading, now, lifecycle, isConnecting,
                   reconnectTimer, timers, reconnectDelay, lastMessageTime,
                   healthInterval, lastSentAt, ended>>

\* the transport reports close: the handler logs
EarlyTransportClose ==
    /\ impl \in Early
    /\ Closes({"open", "closing"})
    /\ last' = "closed"
    /\ eff' = NoEff
    /\ UNCHANGED <<auxVars, quoteVars, impl, trading, now, lifecycle, isConnecting,
                   reconnectTimer, timers, reconnectDelay, pending, lastMessageTime,
                   healthInterval, lastSentAt, ended>>

\* the transport reports an error: the handler logs and ends this.client
EarlyTransportError ==
    /\ impl \in Early
    /\ client = "open"
    /\ client' = EndSession(client)
    /\ last' = "error"
    /\ eff' = NoEff
    /\ UNCHANGED <<auxVars, quoteVars, impl, trading, now, lifecycle, sessions, isConnecting,
                   reconnectTimer, timers, reconnectDelay, pending, lastMessageTime,
                   healthInterval, lastSentAt, ended>>

\* the message handler with the timestamp taken after a successful parse
EarlyMessageStampAfterParse(payload) ==
    /\ impl \in Early
    /\ client = "open"
    /\ lastInbound' = now
    /\ IF payload.ok
       THEN /\ SaveCall(IF impl = EarlyV2 THEN normalizeQuote(payload.q) ELSE payload.q)
            /\ lastMessageTime' = now
            /\ last' = "message"
       ELSE last' = "malformed" /\ UNCHANGED <<quoteVars, lastMessageTime>>
    /\ eff' = NoEff
    /\ UNCHANGED <<impl, trading, now, lifecycle, connVars, healthInterval,
                   lastSentAt, ended, armedDelay, field>>

\* the message handler of registerEvents(): lastMessageTime, then JSON.parse
\* and the save inside try/catch
EarlyMessage(payload) ==
    /\ impl \in Early
    /\ client = "open"
    /\ lastMessageTime' = now
    /\ lastInbound' = now
    /\ IF payload.ok
       THEN /\ SaveCall(IF impl = EarlyV2 THEN normalizeQuote(payload.q) ELSE payload.q)
            /\ last' = "message"
       ELSE last' = "malformed" /\ UNCHANGED quoteVars
    /\ eff' = NoEff
    /\ UNCHANGED <<impl, trading, now, lifecycle, connVars, healthInterval,
                   lastSentAt, ended, armedDelay, field>>

\* a watchdog period of time passes
Tick ==
    /\ impl \in Early
    /\ now < MaxTime
    /\ now' = now + 1
    /\ last' = "tick"
    /\ eff' = NoEff
    /\ UNCHANGED <<auxVars, quoteVars, impl, trading, lifecycle, connVars, lastMessageTime,
                   healthInterval, lastSentAt, ended>>

QuoteInit ==
    /\ quoteImpl \in {Cached, Plain}
    /\ cache = NoEntries
    /\ dnseStore = {}
    /\ mainStore = {}
    /\ saves = EmptyBag
    /\ lastSaved = NoEntries
    /\ qlast = "init"

\* no message yet, no timer armed yet, no field under coercion
NoField == [raw |-> BaseQuote(Undefined), out |-> BaseQuote(Undefined), by |-> "none"]

AuxIdle ==
    /\ lastInbound = -1
    /\ armedDelay = 0
    /\ field = NoField

\* the fields of a freshly constructed owner
ConnIdle ==
    /\ now = 0
    /\ lifecycle = IF impl = Manager THEN "running" ELSE "new"
    /\ client = "null"
    /\ sessions = NoSessions
    /\ isConnecting = FALSE
    /\ reconnectTimer = 0
    /\ timers = {}
    /\ reconnectDelay = ReconnectBase
    /\ pending = NoPending
    /\ lastMessageTime = 0
    /\ healthInterval = FALSE
    /\ lastSentAt = -1
    /\ ended = FALSE
    /\ last = "init"
    /\ eff = NoEff

MqttInit ==
    /\ impl \in {Manager, Service}
    /\ trading \in BOOLEAN
    /\ ConnIdle
    /\ AuxIdle

\* the connection side at rest next to the quote side, and conversely
MqttIdle == MqttInit /\ impl = Manager /\ ~trading
QuoteIdle == QuoteInit /\ quoteImpl = Cached

Init == MqttInit /\ QuoteIdle

Next ==
    \/ StartTrigger
    \/ TimerFires
    \/ AuthFails
    \/ ErrorAlertDone
    \/ MissingBrokerUrl
    \/ UrlAlertDone
    \/ ConnectOpens
    \/ TransportClose
    \/ TransportError
    \/ End
    \/ OnModuleInit
    \/ OnModuleDestroy
    \/ CronStartSession
    \/ CronEndSession
    \/ SvcTimerFires
    \/ SvcAuthFails
    \/ SvcMissingBrokerUrl
    \/ SvcErrorAlertDone
    \/ SvcConnectOpens
    \/ SvcTransportClose
    \/ SvcTransportError
    \/ HealthCheck
    \/ TradingFlips

Spec == Init /\ [][Next]_vars

QuoteNext ==
    \/ \E data \in Inputs : SaveQuoteIfChanged(data)
    \/ \E c \in BagToSet(saves) : ExistsSettles(c)
    \/ \E c \in BagToSet(saves), dnseOk, mainOk \in BOOLEAN :
          UpsertsSettle(c, dnseOk, mainOk)
    \/ \E data \in Inputs : PlainSaveQuoteIfChanged(data)
    \/ \E c \in BagToSet(saves), dnseOk, mainOk \in BOOLEAN :
          PlainUpsertsSettle(c, dnseOk, mainOk)
    \/ \E code \in mainStore : MainRecordRemoved(code)

InitQuote == MqttIdle /\ QuoteInit

SpecQuote == InitQuote /\ [][QuoteNext]_vars

\* the feed: sessions opening and closing inside the trading window, with
\* credentials and configuration in order, messages arriving on the open
\* sessions and their saves settling
FeedInit ==
    /\ impl \in {Manager} \cup Early
    /\ trading = TRUE
    /\ ConnIdle
    /\ AuxIdle
    /\ QuoteInit

FeedNext ==
    \/ StartTrigger
    \/ TimerFires
    \/ ConnectOpens
    \/ TransportClose
    \/ TransportError
    \/ End
    \/ \E payload \in Payloads : Message(payload)
    \/ EarlyOnModuleInit
    \/ EarlyConnectFails
    \/ EarlyConnectOpens
    \/ EarlyTransportClose
    \/ EarlyTransportError
    \/ \E payload \in Payloads : EarlyMessage(payload)
    \/ Tick
    \/ \E c \in BagToSet(saves) : ExistsSettles(c)
    \/ \E c \in BagToSet(saves), dnseOk, mainOk \in BOOLEAN :
          UpsertsSettle(c, dnseOk, mainOk)
    \/ \E c \in BagToSet(saves), dnseOk, mainOk \in BOOLEAN :
          PlainUpsertsSettle(c, dnseOk, mainOk)

SpecFeed == FeedInit /\ [][FeedNext]_vars

\* the watched feed: MqttService with its watchdog running, sessions opening
\* and closing inside the trading window, messages arriving on the open
\* sessions and their saves settling
WatchInit ==
    /\ impl = Service
    /\ trading = TRUE
    /\ ConnIdle
    /\ AuxIdle
    /\ QuoteInit

WatchNext ==
    \/ OnModuleInit
    \/ SvcTimerFires
    \/ SvcConnectOpens
    \/ SvcTransportClose
    \/ HealthCheck
    \/ \E payload \in Payloads : Message(payload)
    \/ \E c \in BagToSet(saves) : ExistsSettles(c)
    \/ \E c \in BagToSet(saves), dnseOk, mainOk \in BOOLEAN :
          UpsertsSettle(c, dnseOk, mainOk)
    \/ \E c \in BagToSet(saves), dnseOk, mainOk \in BOOLEAN :
          PlainUpsertsSettle(c, dnseOk, mainOk)

SpecWatch == WatchInit /\ [][WatchNext]_vars

\* ----------------------------------------------------- the armed delay

\* delays are recorded in 1/Scale ms, which makes every jitter a whole number
Scale == 2 * RandomSteps

\* Math.random() * delay, for Math.random() = k / RandomSteps, in 1/Scale ms
JitterOfWholeDelay(k, delay) == 2 * k * delay

\* const jitter = Math.random() * (this.reconnectDelay / 2), in 1/Scale ms
Jitter(k, delay) == k * delay

\* const jitter = Math.floor(Math.random() * (this.reconnectDelay / 2)), in
\* 1/Scale ms
SvcJitter(k, delay) == Scale * ((k * delay) \div Scale)

\* the values reconnectDelay takes: the base value and its doublings up to the cap
RECURSIVE DelaysFrom(_)
DelaysFrom(d) ==
    IF d >= ReconnectMax THEN {d} ELSE {d} \cup DelaysFrom(Min(d * 2, ReconnectMax))

\* scheduleReconnect() of the manager, with the delay handed to setTimeout
ArmWithJitter(k) ==
    /\ impl = Manager
    /\ ScheduleReconnect
    /\ armedDelay' = IF trading
                     THEN Scale * reconnectDelay + Jitter(k, reconnectDelay)
                     ELSE armedDelay
    /\ last' = IF trading THEN "armed" ELSE "deferred"
    /\ eff' = Rescheduled(trading)
    /\ UNCHANGED <<quoteVars, impl, trading, now, lifecycle, client, sessions,
                   isConnecting, pending, lastMessageTime, healthInterval,
                   lastSentAt, ended, lastInbound, field>>

\* scheduleReconnect() of MqttService, with the delay handed to setTimeout
SvcArmWithJitter(k) ==
    /\ impl = Service
    /\ SvcScheduleReconnect
    /\ armedDelay' = Scale * reconnectDelay + SvcJitter(k, reconnectDelay)
    /\ last' = "armed"
    /\ eff' = Rescheduled(TRUE)
    /\ UNCHANGED <<quoteVars, impl, trading, now, lifecycle, client, sessions,
                   isConnecting, pending, lastMessageTime, healthInterval,
                   lastSentAt, ended, lastInbound, field>>

\* an owner whose backoff delay has any of its values
BackoffInit ==
    /\ impl \in {Manager, Service}
    /\ trading \in BOOLEAN
    /\ now = 0
    /\ lifecycle = "running"
    /\ client = "null"
    /\ sessions = NoSessions
    /\ isConnecting = FALSE
    /\ reconnectTimer = 0
    /\ timers = {}
    /\ reconnectDelay \in DelaysFrom(ReconnectBase)
    /\ pending = NoPending
    /\ lastMessageTime = 0
    /\ healthInterval = (impl = Service)
    /\ lastSentAt = -1
    /\ ended = FALSE
    /\ last = "init"
    /\ eff = NoEff
    /\ AuxIdle
    /\ QuoteIdle

BackoffNext ==
    \/ \E k \in 0..(RandomSteps - 1) : ArmWithJitter(k)
    \/ \E k \in 0..(RandomSteps - 1) : SvcArmWithJitter(k)

SpecBackoff == BackoffInit /\ [][BackoffNext]_vars

\* ------------------------------------------------------- the coercions

\* what a numeric field of a payload may hold: numbers, a numeric text, texts
\* that are no number, the empty text, null, or nothing
FieldValues ==
    {Num(0), Num(1), Str("2"), Str("abc"), Str("1a"), Str(""), Null, Undefined}

\* quotes with two numeric fields holding any of these
CoerceInputs ==
    {[BaseQuote(Str("AAA")) EXCEPT !.matchPrice = v, !.matchQuantity = w] :
        v, w \in FieldValues}

\* normalizeQuote(raw) of part_002 on a quote as it arrived
Normalizes ==
    /\ field.by = "none"
    /\ field' = [field EXCEPT !.out = normalizeQuote(@), !.by = "normalizeQuote"]
    /\ UNCHANGED <<quoteVars, impl, trading, now, lifecycle, connVars, lastMessageTime,
                   healthInterval, lastSentAt, ended, last, eff, lastInbound,
                   armedDelay>>

\* mapQuoteToInternalFormat(quote) on a quote as it arrived or as
\* normalizeQuote left it
Maps ==
    /\ field.by \in {"none", "normalizeQuote"}
    /\ field' = [field EXCEPT !.out = mapQuoteToInternalFormat(@),
                              !.by = "mapQuoteToInternalFormat"]
    /\ UNCHANGED <<quoteVars, impl, trading, now, lifecycle, connVars, lastMessageTime,
                   healthInterval, lastSentAt, ended, last, eff, lastInbound,
                   armedDelay>>

CoerceInit ==
    /\ impl = Manager
    /\ trading = FALSE
    /\ ConnIdle
    /\ lastInbound = -1
    /\ armedDelay = 0
    /\ field \in {[raw |-> q, out |-> q, by |-> "none"] : q \in CoerceInputs}
    /\ QuoteIdle

CoerceNext == Normalizes \/ Maps

SpecCoerce == CoerceInit /\ [][CoerceNext]_vars

\* a burst on one symbol: the messages of the burst carry the same quote, or
\* the quote of the next tick, and their saves overlap
BurstInputs ==
    {BaseQuote(Str("AAA")), [BaseQuote(Str("AAA")) EXCEPT !.matchPrice = Num(MaxVal)]}

\* void this.quoteService.saveQuoteIfChanged(json) for a message of the burst,
\* on the caching service
CachedBurstSave(data) == CachedSaveWithin(data, MaxBurst) /\ UNCHANGED mqttVars

\* the same on the service without cache update
PlainBurstSave(data) == PlainSaveWithin(data, MaxBurst) /\ UNCHANGED mqttVars

BurstInit == MqttIdle /\ QuoteInit

BurstNext ==
    \/ \E data \in BurstInputs : CachedBurstSave(data)
    \/ \E c \in BagToSet(saves) : ExistsSettles(c)
    \/ \E c \in BagToSet(saves), dnseOk, mainOk \in BOOLEAN :
          UpsertsSettle(c, dnseOk, mainOk)
    \/ \E data \in BurstInputs : PlainBurstSave(data)
    \/ \E c \in BagToSet(saves), dnseOk, mainOk \in BOOLEAN :
          PlainUpsertsSettle(c, dnseOk, mainOk)

SpecBurst == BurstInit /\ [][BurstNext]_vars

\* ================================================================ claims

Doubled(d) == Min(d * 2, ReconnectMax)

\* C1: the backoff delay doubles (capped at the maximum) after every failed
\* attempt, is back at the base value right after every successful connect,
\* and changes in no other way
C1_BackoffAsClaimed ==
    [][/\ last' = "failed" => reconnectDelay' = Doubled(reconnectDelay)
       /\ last' = "connected" => reconnectDelay' = ReconnectBase
       /\ reconnectDelay' # reconnectDelay =>
             \/ reconnectDelay' = Doubled(reconnectDelay)
             \/ reconnectDelay' = ReconnectBase /\ last' = "connected"]_vars

\* C2: a connect() called while another connect() of the manager is suspended
\* past the guard changes nothing (no session, handle, flag, timer handle,
\* delay, attempt; no timer armed), and at most one connect() of the manager
\* is past the guard at any time
C2_DuplicateConnectIsNoOp ==
    /\ [](impl = Manager => PastGuard <= 1)
    /\ [][(StartTrigger \/ TimerFires) /\ isConnecting =>
             /\ UNCHANGED <<client, sessions, isConnecting, reconnectTimer,
                            reconnectDelay, pending>>
             /\ timers' \subseteq timers]_vars

C2_Witness == impl = Manager /\ last = "duplicate" /\ PastGuard = 1

\* C3: once end() has run, no reconnect timer is armed until a start trigger
\* calls connect() again
C3_NoReconnectAfterEnd == ended => timers = {}

C5_FailureSchedulesReconnect ==
    (impl = Manager /\ last = "failed" /\ trading) => timers # {}

\* C6: at most one reconnect timer is armed at any time
C6_OneReconnectTimer == Cardinality(timers) <= 1

C6_Witness == eff.cleared /\ Cardinality(timers) = 1

\* C10: a watchdog cycle forces exactly one reconnect and hands exactly one
\* alert to the alert service when the idle time exceeds the stale threshold,
\* and none otherwise; the alert is delivered only when none was delivered
\* within the throttle window
C10_WatchdogCycle ==
    [][last' = "health" =>
          /\ now' - lastMessageTime > StaleThreshold =>
                /\ eff'.forced = 1
                /\ eff'.alert = "MQTT Health Check"
                /\ client' = EndSession(client)
                /\ trading => pending'["auth"] = pending["auth"] + 1
          /\ now' - lastMessageTime <= StaleThreshold =>
                /\ eff'.forced = 0
                /\ eff'.alert = ""
                /\ UNCHANGED <<client, pending, lastSentAt>>
          /\ eff'.delivered =>
                /\ eff'.alert = "MQTT Health Check"
                /\ lastSentAt = -1 \/ now' - lastSentAt >= AlertGap
                /\ lastSentAt' = now'
          /\ ~eff'.delivered => lastSentAt' = lastSentAt]_vars

\* a cycle of a sustained outage whose alert the throttle held back
C10_Witness ==
    /\ last = "health"
    /\ now - lastMessageTime > StaleThreshold
    /\ eff.forced = 1
    /\ ~eff.delivered
    /\ lastSentAt # -1

\* a suspended call leaves in this step (returns, rejects or moves on)
Leaves(c) == CopiesIn(c, saves') < CopiesIn(c, saves)

\* a call suspended at its two upserts appears in this step
Issues(q) ==
    \E ch \in BOOLEAN :
        CopiesIn(Call(q, "upserts", ch), saves') > CopiesIn(Call(q, "upserts", ch), saves)

SaveEnters(data) == SaveQuoteIfChanged(data) \/ PlainSaveQuoteIfChanged(data)

Valid(data) == ~Falsy(data.symbol) /\ ~Falsy(MapStockCode(data))

\* the five compared fields of data equal those of the snapshot cached for its symbol
SameAsCached(data) ==
    /\ data.symbol.s \in DOMAIN cache
    /\ \A f \in CompareFields : cache[data.symbol.s][f] = data[f]

\* C7: a quote with a symbol and a StockCode that differs from the cached
\* snapshot in a compared field, or has no snapshot, has both upserts issued,
\* and when they are through the cache holds that quote for its symbol
C7_ChangedQuoteSavedAndCached ==
    [][/\ \A data \in Inputs :
             (Valid(data) /\ ~SameAsCached(data) /\ SaveEnters(data)) => Issues(data)
       /\ \A c \in BagToSet(saves) :
             (c.pc = "upserts" /\ c.isChanged /\ Leaves(c) /\ qlast' = "saved") =>
                 /\ c.q.symbol.s \in DOMAIN cache'
                 /\ cache'[c.q.symbol.s] = c.q]_vars

\* the two upserts of data succeeded last for its symbol and its normalized
\* document is still there
SavedBefore(data) ==
    /\ data.symbol.s \in DOMAIN lastSaved
    /\ lastSaved[data.symbol.s] = data
    /\ MapStockCode(data) \in mainStore

\* C8: a quote equal to the cached snapshot whose normalized document exists
\* causes no write and leaves the cache alone; a quote repeated after its
\* upserts succeeded causes no second write
C8_UnchangedQuoteNotWritten ==
    [][/\ \A c \in BagToSet(saves) :
             (c.pc = "exists" /\ Leaves(c) /\ MapStockCode(c.q) \in mainStore) =>
                 ~Issues(c.q) /\ UNCHANGED <<cache, dnseStore, mainStore>>
       /\ \A data \in Inputs :
             (SavedBefore(data) /\ SaveEnters(data)) => ~Issues(data)]_vars

\* C9: for a quote equal to the cached snapshot the service asks whether the
\* normalized document exists, and when it does not, both upserts are issued
\* and the cache and the stores are those the upserts leave
C9_MissingRecordHealed ==
    [][/\ \A data \in Inputs :
             (SameAsCached(data) /\ Valid(data) /\ SaveEnters(data)) =>
                 CopiesIn(Call(data, "exists", FALSE), saves') >
                 CopiesIn(Call(data, "exists", FALSE), saves)
       /\ \A c \in BagToSet(saves) :
             (c.pc = "exists" /\ Leaves(c) /\ MapStockCode(c.q) \notin mainStore) =>
                 Issues(c.q)
       /\ \A c \in BagToSet(saves) :
             (c.pc = "upserts" /\ ~c.isChanged /\ Leaves(c)) =>
                 \/ MapStockCode(c.q) \in mainStore' /\ c.q.symbol.s \in dnseStore'
                 \/ qlast' = "rejected"]_vars

\* the exists check of an unchanged quote found no document and the upserts
\* were issued
C9_Witness ==
    /\ qlast = "healing"
    /\ \E c \in BagToSet(saves) :
          /\ c.pc = "upserts"
          /\ ~c.isChanged
          /\ SameAsCached(c.q)
          /\ MapStockCode(c.q) \notin mainStore

\* a payload that parses and passes the validation of the save
ValidPayload == [ok |-> TRUE, q |-> BaseQuote(Str("AAA"))]

\* C11: the message handler of the first two MqttService versions sets
\* lastMessageTime to now for every inbound message, parsed or not; a message
\* that does not parse changes nothing else (no session, handle, timer, delay,
\* attempt, save), and the session keeps taking messages after it
C11_MalformedMessageDropped ==
    /\ [][\A payload \in Payloads :
             (impl \in Early /\ EarlyMessage(payload)) =>
                 /\ lastMessageTime' = now
                 /\ ~payload.ok =>
                       /\ UNCHANGED <<connVars, quoteVars>>
                       /\ timers' = {}]_vars
    /\ []((impl \in Early /\ last = "malformed") =>
             /\ ENABLED EarlyMessage(Malformed)
             /\ BagCardinality(saves) < MaxSaves => ENABLED EarlyMessage(ValidPayload))

\* a message that did not parse was stamped after the clock had moved
C11_Witness ==
    /\ impl \in Early
    /\ last = "malformed"
    /\ now > 0
    /\ lastMessageTime = now

\* C12: inside the trading window, right after a transport close or error
\* was handled there is an open session, an armed reconnect timer or a
\* connect attempt under way
C12_CloseLeadsToReconnect ==
    (trading /\ last \in {"closed", "error"}) =>
        \/ client = "open"
        \/ timers # {}
        \/ pending["auth"] + pending["urlAlert"] + pending["errAlert"] > 0

\* C13: the delay handed to setTimeout by scheduleReconnect() is the backoff
\* delay before its doubling plus a jitter within [0, delay / 2)
C13_JitterWithinHalf ==
    [][last' = "armed" =>
          /\ armedDelay' >= Scale * reconnectDelay
          /\ 2 * armedDelay' < 3 * Scale * reconnectDelay]_vars

\* a timer armed by MqttService with a jitter above zero, below the cap
C13_Witness ==
    /\ impl = Service
    /\ last = "armed"
    /\ reconnectDelay < ReconnectMax
    /\ 2 * armedDelay > Scale * reconnectDelay

\* a text that Number() does not read as a number
NonNumericText(value) == value.t = "string" /\ ToNumber(value) = NaN

Absent(value) == value.t \in {"undefined", "null"}

\* C14: after a coercion, a numeric field that arrived as non-numeric text is
\* absent, and so is one that arrived absent
C14_CoercionFailureIsAbsent ==
    field.by # "none" =>
        \A f \in {"matchPrice", "matchQuantity"} :
            (NonNumericText(field.raw[f]) \/ Absent(field.raw[f])) => Absent(field.out[f])

\* the session this.client refers to was ended by forceReconnect() and its
\* close event is still to come (cronEndSession() drops the reference and
\* onModuleDestroy() ends the service)
ForceEnded == impl = Service /\ lifecycle = "running" /\ client = "closing"

\* C15: forceReconnect() ends the session and calls connectToBroker() with the
\* backoff delay unchanged, and the close event of the session it ended leaves
\* the delay unchanged too
C15_ForceReconnectKeepsBackoff ==
    [][/\ (last' = "health" /\ eff'.forced = 1) =>
             /\ client' = EndSession(client)
             /\ trading => pending'["auth"] = pending["auth"] + 1
             /\ reconnectDelay' = reconnectDelay
       /\ (ForceEnded /\ client' = "closed") => reconnectDelay' = reconnectDelay]_vars

\* C16: when the two upserts issued by the caching service settle, whatever
\* their outcome, the cache holds the quote of that call for its symbol, and
\* the cache changes at no other moment
C16_CacheSetWhateverTheOutcome ==
    [][/\ \A c \in BagToSet(saves) :
             (quoteImpl = Cached /\ c.pc = "upserts" /\ Leaves(c)) =>
                 /\ c.q.symbol.s \in DOMAIN cache'
                 /\ cache'[c.q.symbol.s] = c.q
       /\ cache' # cache =>
             \E c \in BagToSet(saves) : c.pc = "upserts" /\ Leaves(c)]_vars

\* the quote has no symbol or no mapped StockCode
Invalid(data) == Falsy(data.symbol) \/ Falsy(MapStockCode(data))

Rejected == {"noSymbol", "noStockCode"}

LastHeard == IF lastInbound = -1 THEN 0 ELSE lastInbound

\* C18: a watchdog cycle forces a reconnect only when more than the stale
\* threshold has passed since the last inbound message
C18_FreshSessionNotForced ==
    [][(last' = "health" /\ eff'.forced = 1) => now' - LastHeard > StaleThreshold]_vars

\* C19: onModuleInit() starts a connect attempt only inside the trading
\* window, and once onModuleDestroy() has run the watchdog is cancelled, no
\* reconnect timer is armed and no connect attempt is under way
C19_NothingRunsAfterStop ==
    /\ [][(OnModuleInit /\ ~trading) => UNCHANGED <<client, sessions, pending>>]_vars
    /\ [](lifecycle = "destroyed" =>
             /\ ~healthInterval
             /\ timers = {}
             /\ pending["auth"] + pending["errAlert"] = 0)

\* sessions that were opened and not ended
OpenSessions == (IF client = "open" THEN 1 ELSE 0) + sessions["open"]

\* C20: at most one session is open at any time, and no open session is left
\* without the handle referring to it
C20_OneLiveSession == OpenSessions <= 1 /\ sessions["open"] = 0

\* C21: once end() has run, and until a start trigger calls connect() again,
\* the handle is null and no session is open
C21_NoSessionAfterEnd == ended => (client = "null" /\ sessions["open"] = 0)

\* C22: of the overlapping saves of a burst of identical quotes for one symbol,
\* at most one is awaiting a pair of upserts it issued for the change
C22_OnePairPerBurst ==
    \A q \in BurstInputs : CopiesIn(Call(q, "upserts", TRUE), saves) <= 1

====
